---- MODULE Spec2Model ----
(***************************************************************************)
(* Verification model of the geocoding crate: the three provider adapters  *)
(* (Opencage, Openstreetmap, GeoAdmin), their forward / reverse handlers   *)
(* and the Opencage quota counter `remaining: Arc<Mutex<Option<i32>>>`.    *)
(*                                                                         *)
(* A call is a little state machine per calling thread:                    *)
(*   idle -> request -> [headers -> [locked]] -> json -> done              *)
(* The handler builds its query and issues the GET in the step that leaves *)
(* `request`; `send()` returns once status line and headers have arrived,  *)
(* the body is read by `resp.json()`.  Coordinates are fixed-point numbers *)
(* scaled by 100 (2600968.75 is written 260096875).  Option<T> is a        *)
(* sequence of length at most one.  A query is the sequence of its         *)
(* <<key, value>> pairs in the order the handler pushes them.              *)
(***************************************************************************)
EXTENDS Integers, Sequences, FiniteSets, TLC

\* ---------------------------------------------------------------- bounds
NumThreads == 2
MaxResults == 2

Threads == 1..NumThreads

\* ---------------------------------------------------------------- Option
None == <<>>
Some(v) == <<v>>

\* ------------------------------------------------------- geometry (lib.rs)
Point(x, y) == [x |-> x, y |-> y]

\* -------------------------------------------------- the rate-limit header
\* A header value is a sequence of bytes.
I32Max == 2147483647
I32Min == -I32Max - 1

HdrSeven == <<55>>
HdrTwentyFour == <<50, 52>>
HdrNotInt == <<49, 120>>
HdrNotUtf8 == <<255>>
HeaderValues == {HdrSeven, HdrTwentyFour, HdrNotInt, HdrNotUtf8}

\* A conversion that never fails, in the manner of String::from_utf8_lossy.
ToStrOkLossy(h) == TRUE

\* HeaderValue::to_str: Ok iff every byte is visible ASCII or a tab.
ToStrOk(h) == \A i \in 1..Len(h) : h[i] = 9 \/ (h[i] >= 32 /\ h[i] < 127)

\* str::parse::<i32>: optional sign, then at least one decimal digit, the
\* value accumulated digit by digit with an overflow check at each step.
\* Returns Some(n) or None (a ParseIntError).
RECURSIVE ParseDigits(_, _, _, _)
ParseDigits(s, i, acc, neg) ==
    IF i > Len(s) THEN Some(acc)
    ELSE IF s[i] < 48 \/ s[i] > 57 THEN None
    ELSE LET d == s[i] - 48 IN
         IF neg
         THEN IF acc < (I32Min + d + 9) \div 10 THEN None
              ELSE ParseDigits(s, i + 1, acc * 10 - d, neg)
         ELSE IF acc > (I32Max - d) \div 10 THEN None
              ELSE ParseDigits(s, i + 1, acc * 10 + d, neg)

ParseI32(s) ==
    IF s = <<>> THEN None
    ELSE IF s[1] \in {43, 45}
         THEN IF Len(s) = 1 THEN None ELSE ParseDigits(s, 2, 0, s[1] = 45)
         ELSE ParseDigits(s, 1, 0, FALSE)

\* The integer a header carries, if it carries one.
HeaderInt(h) == IF ToStrOk(h) THEN ParseI32(h) ELSE None

\* ------------------------------------------------------------ call results
\* Result<_, GeocodingError> of a call, or the panic that unwinds it.
NoRet == [kind |-> "none", err |-> "none", val |-> <<>>]
Ok(v) == [kind |-> "Ok", err |-> "none", val |-> v]
Err(e) == [kind |-> "Err", err |-> e, val |-> <<>>]
Panic == [kind |-> "Panic", err |-> "none", val |-> <<>>]

\* ------------------------------------------------------- response bodies
\* What the providers put on the wire (the fields the handlers read).
OcResultA == [geometry |-> [lat |-> 4817, lng |-> 1158], formatted |-> "Schwabing"]
OcResultB == [geometry |-> [lat |-> 4140, lng |-> 213], formatted |-> "Carrer de Calatrava"]
OcResults == {OcResultA, OcResultB}

OsmFeatureA ==
    [geometry |-> [coordinates |-> <<1158, 4817>>], properties |-> [display_name |-> "Schwabing"]]
OsmFeatureB ==
    [geometry |-> [coordinates |-> <<213, 4140>>], properties |-> [display_name |-> "Barcelona"]]
OsmFeatures == {OsmFeatureA, OsmFeatureB}

\* The documented fixture: "y": 2600968.75, "x": 1197427.0 (sr 2056), and
\* x = 7.45, y = 46.93 for sr 4326.
GaFeatureLV95 == [properties |-> [x |-> 119742700, y |-> 260096875]]
GaFeatureWgs84 == [properties |-> [x |-> 745, y |-> 4693]]
GaFeatures == {GaFeatureLV95, GaFeatureWgs84}

GaResultA ==
    [properties |-> [strname_deinr |-> "Seftigenstrasse 264", dplz4 |-> 3084, dplzname |-> "Wabern"]]
GaResultB ==
    [properties |-> [strname_deinr |-> "Bundesplatz 3", dplz4 |-> 3005, dplzname |-> "Bern"]]
GaResults == {GaResultA, GaResultB}

SeqsUpTo(S, n) == UNION {[1..k -> S] : k \in 0..n}

Unread == [read |-> FALSE, decodable |-> FALSE, results |-> <<>>]
Undecodable == [read |-> TRUE, decodable |-> FALSE, results |-> <<>>]
WellFormed(rs) == [read |-> TRUE, decodable |-> TRUE, results |-> rs]

\* ------------------------------------------------------------- operations
Opencage == "Opencage"
Openstreetmap == "Openstreetmap"
GeoAdmin == "GeoAdmin"

NoOp == [adapter |-> "none", method |-> "none"]
Op(a, m) == [adapter |-> a, method |-> m]

OpencageCalls == {Op(Opencage, m) : m \in {"forward", "reverse", "forward_full", "reverse_full"}}
RemainingCalls == Op(Opencage, "remaining_calls")
OpenstreetmapCalls == {Op(Openstreetmap, m) : m \in {"forward", "reverse", "forward_full"}}
GeoAdminCalls == {Op(GeoAdmin, m) : m \in {"forward", "reverse", "forward_full"}}
HttpCalls == OpencageCalls \cup OpenstreetmapCalls \cup GeoAdminCalls

\* The items a decodable body of the operation's response type may carry.
ResultItems(o) ==
    IF o.adapter = Opencage THEN OcResults
    ELSE IF o.adapter = Openstreetmap THEN OsmFeatures
    ELSE IF o.method = "reverse" THEN GaResults
    ELSE GaFeatures

Bodies(o, n) == {Undecodable} \cup {WellFormed(rs) : rs \in SeqsUpTo(ResultItems(o), n)}

\* ------------------------------------- what each handler makes of the body
\* A forward that builds its points latitude first.
OpencageForwardLatLng(results) ==
    Ok([i \in 1..Len(results) |->
            Point(results[i].geometry.lat, results[i].geometry.lng)])

\* A forward that indexes the first result the way reverse does.
OpencageForwardFirst(results) ==
    IF Len(results) = 0 THEN Panic
    ELSE Ok([i \in 1..Len(results) |->
                Point(results[i].geometry.lng, results[i].geometry.lat)])

\* opencage.rs, Forward::forward: Point::new(geometry["lng"], geometry["lat"])
OpencageForward(results) ==
    Ok([i \in 1..Len(results) |->
            Point(results[i].geometry.lng, results[i].geometry.lat)])

\* opencage.rs, Reverse::reverse: `&res.results[0]` indexes without a check.
OpencageReverse(results) ==
    IF Len(results) = 0 THEN Panic ELSE Ok(Some(results[1].formatted))

\* openstreetmap.rs, Forward::forward: Point::new(coordinates.0, coordinates.1)
OpenstreetmapForward(features) ==
    Ok([i \in 1..Len(features) |->
            Point(features[i].geometry.coordinates[1], features[i].geometry.coordinates[2])])

\* A reverse that reports an empty answer as the Reverse error.
OpenstreetmapReverseChecked(features) ==
    IF Len(features) = 0 THEN Err("Reverse") ELSE Ok(Some(features[1].properties.display_name))

\* openstreetmap.rs, Reverse::reverse: `&res.features[0]` indexes without a check.
OpenstreetmapReverse(features) ==
    IF Len(features) = 0 THEN Panic ELSE Ok(Some(features[1].properties.display_name))

\* A forward that swaps for the geographic systems instead of the projected ones.
GeoAdminForwardSwapWgs(srv, features) ==
    IF srv \in {"4326", "3857"}
    THEN Ok([i \in 1..Len(features) |->
                Point(features[i].properties.y, features[i].properties.x)])
    ELSE Ok([i \in 1..Len(features) |->
                Point(features[i].properties.x, features[i].properties.y)])

\* geoadmin.rs, Forward::forward: easting and northing swapped for LV95 / LV03.
GeoAdminForward(srv, features) ==
    IF srv \in {"2056", "21781"}
    THEN Ok([i \in 1..Len(features) |->
                Point(features[i].properties.y, features[i].properties.x)])
    ELSE Ok([i \in 1..Len(features) |->
                Point(features[i].properties.x, features[i].properties.y)])

\* geoadmin.rs, Reverse::reverse: format!("{}, {} {}", strname_deinr, dplz4, dplzname)
GeoAdminAddress(p) ==
    p.strname_deinr \o ", " \o ToString(p.dplz4) \o " " \o p.dplzname

\* A reverse that formats the last result of the list.
GeoAdminReverseLast(results) ==
    IF Len(results) # 0 THEN Ok(Some(GeoAdminAddress(results[Len(results)].properties)))
    ELSE Ok(None)

\* if !res.results.is_empty() { .. &res.results[0].properties .. } else { Ok(None) }
GeoAdminReverse(results) ==
    IF Len(results) # 0 THEN Ok(Some(GeoAdminAddress(results[1].properties)))
    ELSE Ok(None)

\* forward_full / reverse_full hand the decoded response to the caller.
FullResponse(results) == Ok(results)

\* The value a handler returns once `resp.json()` has produced `b`.
Decode(o, srv, b) ==
    IF ~b.decodable THEN Err("Request")
    ELSE IF o.method \in {"forward_full", "reverse_full"} THEN FullResponse(b.results)
    ELSE IF o = Op(Opencage, "forward") THEN OpencageForward(b.results)
    ELSE IF o = Op(Opencage, "reverse") THEN OpencageReverse(b.results)
    ELSE IF o = Op(Openstreetmap, "forward") THEN OpenstreetmapForward(b.results)
    ELSE IF o = Op(Openstreetmap, "reverse") THEN OpenstreetmapReverse(b.results)
    ELSE IF o = Op(GeoAdmin, "forward") THEN GeoAdminForward(srv, b.results)
    ELSE GeoAdminReverse(b.results)

\* ------------------------------------------------- InputBounds (lib.rs)
\* A constructor that normalises the box: smaller coordinates first.
InputBoundsNewSorted(minimum_lonlat, maximum_lonlat) ==
    LET lo(a, b) == IF a <= b THEN a ELSE b
        hi(a, b) == IF a <= b THEN b ELSE a
    IN  [minimum_lonlat |-> Point(lo(minimum_lonlat.x, maximum_lonlat.x),
                                  lo(minimum_lonlat.y, maximum_lonlat.y)),
         maximum_lonlat |-> Point(hi(minimum_lonlat.x, maximum_lonlat.x),
                                  hi(minimum_lonlat.y, maximum_lonlat.y))]

\* InputBounds::new: the two points are stored as they are given.
InputBoundsNew(minimum_lonlat, maximum_lonlat) ==
    [minimum_lonlat |-> minimum_lonlat, maximum_lonlat |-> maximum_lonlat]

Abs(n) == IF n < 0 THEN -n ELSE n

\* f64::to_string of a coordinate (hundredths): shortest decimal form, no
\* trailing zeros, no decimal point for a whole number.
F64ToString(v) ==
    LET whole == Abs(v) \div 100
        frac == Abs(v) % 100
    IN  (IF v < 0 THEN "-" ELSE "") \o ToString(whole) \o
        (IF frac = 0 THEN ""
         ELSE IF frac % 10 = 0 THEN "." \o ToString(frac \div 10)
         ELSE IF frac < 10 THEN ".0" \o ToString(frac)
         ELSE "." \o ToString(frac))

\* impl From<InputBounds<T>> for String: "{},{},{},{}", minimum corner first.
InputBoundsString(ip) ==
    F64ToString(ip.minimum_lonlat.x) \o "," \o F64ToString(ip.minimum_lonlat.y) \o "," \o
    F64ToString(ip.maximum_lonlat.x) \o "," \o F64ToString(ip.maximum_lonlat.y)

\* ---------------------------------------------------- parameter builders
\* A builder whose default carries no limit.
GeoAdminParamsNewUnlimited(searchtext) ==
    [searchtext |-> searchtext,
     origins |-> "zipcode,gg25,district,kantone,gazetteer,address,parcel",
     bbox |-> None,
     limit |-> None]

\* geoadmin.rs, GeoAdminParams::new / with_origins / with_bbox / with_limit / build
GeoAdminParamsNew(searchtext) ==
    [searchtext |-> searchtext,
     origins |-> "zipcode,gg25,district,kantone,gazetteer,address,parcel",
     bbox |-> None,
     limit |-> Some(50)]

GeoAdminWithOrigins(self, origins) == [self EXCEPT !.origins = origins]

GeoAdminWithBbox(self, bbox) == [self EXCEPT !.bbox = Some(bbox)]

\* A with_limit that also forgets the box.
GeoAdminWithLimitDropsBbox(self, limit) == [self EXCEPT !.limit = Some(limit), !.bbox = None]

GeoAdminWithLimit(self, limit) == [self EXCEPT !.limit = Some(limit)]

GeoAdminBuild(self) ==
    [searchtext |-> self.searchtext, origins |-> self.origins,
     bbox |-> self.bbox, limit |-> self.limit]

\* openstreetmap.rs, OpenstreetmapParams::new / with_addressdetails / with_viewbox / build
OpenstreetmapParamsNew(query) ==
    [query |-> query, addressdetails |-> FALSE, viewbox |-> None]

OpenstreetmapWithAddressdetails(self, addressdetails) ==
    [self EXCEPT !.addressdetails = addressdetails]

OpenstreetmapWithViewbox(self, viewbox) == [self EXCEPT !.viewbox = Some(viewbox)]

OpenstreetmapBuild(self) ==
    [query |-> self.query, addressdetails |-> self.addressdetails,
     viewbox |-> self.viewbox]

\* opencage.rs, Parameters::default and Parameters::as_query
ParametersDefault == [language |-> None, countrycode |-> None, limit |-> None]

AddOptionalParam(param, name) ==
    IF param # None THEN <<<<name, param[1]>>>> ELSE <<>>

AsQuery(self) ==
    AddOptionalParam(self.language, "language") \o
    AddOptionalParam(self.countrycode, "countrycode") \o
    AddOptionalParam(self.limit, "limit")

\* ------------------------------------------------------------ call inputs
PointBernSW == Point(745, 4692)
PointBernNE == Point(746, 4693)
PointLondonSW == Point(-14, 5151)
PointLondonNE == Point(-13, 5152)
PointBarcelona == Point(213, 4140)

PlaceWabern == "Seftigenstrasse 264, 3084 Wabern"

\* The boxes callers build: a box around Bern, the same corners the wrong way
\* round, and a box in London.
Boxes ==
    {InputBoundsNew(PointBernSW, PointBernNE),
     InputBoundsNew(PointBernNE, PointBernSW),
     InputBoundsNew(PointLondonSW, PointLondonNE)}

NoArgs == [none |-> TRUE]

\* What a caller may pass to the operation.
QueryArgs(o) ==
    IF o.method = "forward" THEN {[place |-> PlaceWabern]}
    ELSE IF o.method \in {"reverse", "reverse_full"}
    THEN {[point |-> pt] : pt \in {PointBernSW, PointBarcelona}}
    ELSE IF o.adapter = Opencage
    THEN {[place |-> PlaceWabern, bounds |-> b] : b \in {None} \cup {Some(bb) : bb \in Boxes}}
    ELSE IF o.adapter = Openstreetmap
    THEN {[params |-> OpenstreetmapBuild(pm)] :
             pm \in {OpenstreetmapParamsNew(PlaceWabern),
                     OpenstreetmapWithAddressdetails(OpenstreetmapParamsNew(PlaceWabern), TRUE)}
                 \cup {OpenstreetmapWithViewbox(OpenstreetmapParamsNew(PlaceWabern), bb) :
                          bb \in Boxes}}
    ELSE {[params |-> GeoAdminBuild(pm)] :
             pm \in {GeoAdminParamsNew(PlaceWabern),
                     GeoAdminWithLimit(GeoAdminParamsNew(PlaceWabern), 5)}
                 \cup {GeoAdminWithBbox(
                           GeoAdminWithOrigins(GeoAdminParamsNew(PlaceWabern), "address"), bb) :
                          bb \in Boxes}}

\* The plain call of each operation: no box, default parameters.
DefaultArgs(o) ==
    IF o.method = "forward" THEN [place |-> PlaceWabern]
    ELSE IF o.method \in {"reverse", "reverse_full"} THEN [point |-> PointBarcelona]
    ELSE IF o.method = "remaining_calls" THEN NoArgs
    ELSE IF o.adapter = Opencage THEN [place |-> PlaceWabern, bounds |-> None]
    ELSE IF o.adapter = Openstreetmap
    THEN [params |-> OpenstreetmapBuild(OpenstreetmapParamsNew(PlaceWabern))]
    ELSE [params |-> GeoAdminBuild(GeoAdminParamsNew(PlaceWabern))]

\* ------------------------------------------------------------------ state
VARIABLES
    sr,           \* GeoAdmin.sr, the reference system of the GeoAdmin instance
    remaining,    \* Opencage.remaining, the value inside the Mutex
    lockHolder,   \* the thread that holds the quota Mutex, 0 when it is free
    pc,           \* per thread: where its current call stands
    op,           \* per thread: the operation it is in
    resp,         \* per thread: status and rate-limit header of its response
    got,          \* per thread: how try_lock() ended ("none" before it ran)
    stored,       \* per thread: whether the call wrote the quota ("same" value or "new")
    body,         \* per thread: the body resp.json() read
    ret,          \* per thread: what the call returned
    received,     \* history: the integers of all rate-limit headers received
    endpoint,     \* per adapter: its endpoint
    api_key,      \* Opencage.api_key
    parameters,   \* Opencage.parameters
    args,         \* per thread: what the caller passed to the operation
    request,      \* per thread: URL and query of the GET the call issued
    sent,         \* per thread: how many GETs the call has issued
    lv03Log,      \* history: input, output and the sr in force of every
                  \* wgs84_to_lv03 invocation
    builder,      \* the caller's parameter builder: its kind and its fields
    built,        \* what the last build() returned
    lastSet       \* history: per field, the value of the last with_* call

vars == <<sr, remaining, lockHolder, pc, op, resp, got, stored, body, ret, received,
          endpoint, api_key, parameters, args, request, sent, lv03Log,
          builder, built, lastSet>>

\* The adapter fields no operation writes, and what a call leaves of its request.
config == <<endpoint, api_key, parameters>>
issued == <<args, request, sent, lv03Log>>
building == <<builder, built, lastSet>>

NoResp == [status |-> "none", hdr |-> None]
NoRequest == [url |-> "", query |-> <<>>]

\* No builder has been created; no with_* method has been called.
NoBuilder == [kind |-> "none"]
NoSetters ==
    [f \in {"origins", "bbox", "limit", "addressdetails", "viewbox"} |-> None]

DefaultEndpoints ==
    [a \in {Opencage, Openstreetmap, GeoAdmin} |->
        IF a = Opencage THEN "https://api.opencagedata.com/geocode/v1/json"
        ELSE IF a = Openstreetmap THEN "https://nominatim.openstreetmap.org/"
        ELSE "https://api3.geo.admin.ch/rest/services/api/"]

\* GeoAdmin::default, Opencage::new, Openstreetmap::new: no call made yet.
Init ==
    /\ sr = "4326"
    /\ remaining = None
    /\ lockHolder = 0
    /\ pc = [t \in Threads |-> "idle"]
    /\ op = [t \in Threads |-> NoOp]
    /\ resp = [t \in Threads |-> NoResp]
    /\ got = [t \in Threads |-> "none"]
    /\ stored = [t \in Threads |-> "none"]
    /\ body = [t \in Threads |-> Unread]
    /\ ret = [t \in Threads |-> NoRet]
    /\ received = {}
    /\ endpoint = DefaultEndpoints
    /\ api_key = "dcdbf0d783374909b3debee728c7cc10"
    /\ parameters = ParametersDefault
    /\ args = [t \in Threads |-> NoArgs]
    /\ request = [t \in Threads |-> NoRequest]
    /\ sent = [t \in Threads |-> 0]
    /\ lv03Log = {}
    /\ builder = NoBuilder
    /\ built = None
    /\ lastSet = NoSetters

\* GeoAdmin::with_sr takes the instance by value and stores any string.
SrValues == {"2056", "21781", "4326", "3857", "25832"}

WithSr(s) ==
    /\ \A t \in Threads : pc[t] = "idle"
    /\ sr # s
    /\ sr' = s
    /\ UNCHANGED <<remaining, lockHolder, pc, op, resp, got, stored, body, ret, received>>
    /\ UNCHANGED <<config, building, issued>>

\* GeoAdmin::with_endpoint takes the instance by value as well.
Endpoints == {DefaultEndpoints[GeoAdmin], "http://localhost:8080/api/"}

WithEndpoint(e) ==
    /\ \A t \in Threads : pc[t] = "idle"
    /\ endpoint[GeoAdmin] # e
    /\ endpoint' = [endpoint EXCEPT ![GeoAdmin] = e]
    /\ UNCHANGED <<sr, remaining, lockHolder, pc, op, resp, got, stored, body, ret, received>>
    /\ UNCHANGED <<api_key, parameters, issued, building>>

\* oc.parameters.language = Some("fr"): the owner assigns the public field,
\* which needs the instance unborrowed.
ParameterValues ==
    {ParametersDefault,
     [ParametersDefault EXCEPT !.language = Some("fr")],
     [language |-> Some("fr"), countrycode |-> Some("ch"), limit |-> Some("1")]}

SetParameters(p) ==
    /\ \A t \in Threads : pc[t] = "idle"
    /\ parameters # p
    /\ parameters' = p
    /\ UNCHANGED <<sr, remaining, lockHolder, pc, op, resp, got, stored, body, ret, received>>
    /\ UNCHANGED <<endpoint, api_key, issued, building>>

\* A thread enters forward / reverse / forward_full / reverse_full (the query
\* is built and the GET is about to be sent) or remaining_calls.
Begin(t, o, a) ==
    /\ pc[t] = "idle"
    /\ pc' = [pc EXCEPT ![t] = IF o = RemainingCalls THEN "lock" ELSE "request"]
    /\ op' = [op EXCEPT ![t] = o]
    /\ args' = [args EXCEPT ![t] = a]
    /\ UNCHANGED <<sr, remaining, lockHolder, resp, got, stored, body, ret, received>>
    /\ UNCHANGED <<config, building, request, sent, lv03Log>>

\* The call returns `r`: its locals (the response, the lock result) are gone.
Finish(t, status, r) ==
    /\ pc' = [pc EXCEPT ![t] = "done"]
    /\ resp' = [resp EXCEPT ![t] = [status |-> status, hdr |-> None]]
    /\ got' = [got EXCEPT ![t] = "none"]
    /\ stored' = [stored EXCEPT ![t] = "none"]
    /\ ret' = [ret EXCEPT ![t] = r]

\* The header values a response to the operation may carry.
HeadersFor(o, status) ==
    IF status = "transport" \/ o.adapter # Opencage THEN {None}
    ELSE {None} \cup {Some(h) : h \in HeaderValues}

\* ---------------------------------------------------- building the request
\* a * b / 10^6, truncated, for operands in millionths.
MulMicro(a, b) ==
    LET a1 == Abs(a) \div 1000
        a0 == Abs(a) % 1000
        b1 == Abs(b) \div 1000
        b0 == Abs(b) % 1000
        m == a1 * b1 + (a1 * b0 + a0 * b1 + (a0 * b0) \div 1000) \div 1000
    IN  IF (a < 0) = (b < 0) THEN m ELSE -m

\* The two polynomials without the final subtraction of 2000000 and 1000000.
Lv95Polynomial(lambda, phi) ==
    LET l2 == MulMicro(lambda, lambda)
        l3 == MulMicro(l2, lambda)
        p2 == MulMicro(phi, phi)
        p3 == MulMicro(p2, phi)
        x == 260007237 + MulMicro(21145593, lambda)
                 - MulMicro(1093851, MulMicro(lambda, phi))
                 - MulMicro(36, MulMicro(lambda, p2))
                 - MulMicro(4454, l3)
        y == 120014707 + MulMicro(30880795, phi) + MulMicro(374525, l2)
                 + MulMicro(7663, p2)
                 - MulMicro(19456, MulMicro(l2, phi))
                 + MulMicro(11979, p3)
    IN  Point(x, y)

\* geoadmin.rs, wgs84_to_lv03: the two polynomials in lambda and phi (both in
\* millionths), the result in hundredths of a metre.
Lv03Polynomial(lambda, phi) ==
    LET l2 == MulMicro(lambda, lambda)
        l3 == MulMicro(l2, lambda)
        p2 == MulMicro(phi, phi)
        p3 == MulMicro(p2, phi)
        x == 260007237 + MulMicro(21145593, lambda)
                 - MulMicro(1093851, MulMicro(lambda, phi))
                 - MulMicro(36, MulMicro(lambda, p2))
                 - MulMicro(4454, l3)
        y == 120014707 + MulMicro(30880795, phi) + MulMicro(374525, l2)
                 + MulMicro(7663, p2)
                 - MulMicro(19456, MulMicro(l2, phi))
                 + MulMicro(11979, p3)
    IN  Point(x - 200000000, y - 100000000)

\* A transform that keeps its last result in a one-slot cache and returns it
\* whatever the input.
Wgs84ToLv03Cached(p) ==
    IF lv03Log # {} THEN (CHOOSE e \in lv03Log : TRUE).output
    ELSE Lv03Polynomial(3600 * p.x - 2678250, 3600 * p.y - 16902866)

\* lambda = (lon * 3600 - 26782.5) / 10000, phi = (lat * 3600 - 169028.66) / 10000
Wgs84ToLv03(p) ==
    Lv03Polynomial(3600 * p.x - 2678250, 3600 * p.y - 16902866)

\* A box handling that transforms the minimum corner only.
GeoAdminBboxMinOnly(bb) ==
    IF sr \in {"4326", "3857"}
    THEN InputBoundsNew(Wgs84ToLv03(bb.minimum_lonlat), bb.maximum_lonlat)
    ELSE bb

\* A box handling that puts the transformed corners in ascending order.
GeoAdminBboxSorted(bb) ==
    LET a == Wgs84ToLv03(bb.minimum_lonlat)
        b == Wgs84ToLv03(bb.maximum_lonlat)
        least(u, v) == IF u <= v THEN u ELSE v
        most(u, v) == IF u <= v THEN v ELSE u
    IN
    IF sr \in {"4326", "3857"}
    THEN InputBoundsNew(Point(least(a.x, b.x), least(a.y, b.y)),
                        Point(most(a.x, b.x), most(a.y, b.y)))
    ELSE bb

\* A box handling that transforms under "4326" only.
GeoAdminBboxWgsOnly(bb) ==
    IF sr = "4326"
    THEN InputBoundsNew(Wgs84ToLv03(bb.minimum_lonlat), Wgs84ToLv03(bb.maximum_lonlat))
    ELSE bb

\* geoadmin.rs, forward_full: the clone of the caller's box, replaced by the
\* box of its transformed corners when sr is "4326" or "3857".
GeoAdminBbox(bb) ==
    IF sr \in {"4326", "3857"}
    THEN InputBoundsNew(Wgs84ToLv03(bb.minimum_lonlat), Wgs84ToLv03(bb.maximum_lonlat))
    ELSE bb

GeoAdminForwardFullRequest(params) ==
    [url |-> endpoint[GeoAdmin] \o "SearchServer",
     query |->
        << <<"searchText", params.searchtext>>,
           <<"type", "locations">>,
           <<"origins", params.origins>>,
           <<"sr", sr>>,
           <<"geometryFormat", "geojson">> >>
        \o (IF params.bbox # None
            THEN << <<"bbox", InputBoundsString(GeoAdminBbox(params.bbox[1]))>> >>
            ELSE <<>>)
        \o (IF params.limit # None
            THEN << <<"limit", ToString(params.limit[1])>> >>
            ELSE <<>>)]

GeoAdminForwardRequest(place) ==
    [url |-> endpoint[GeoAdmin] \o "SearchServer",
     query |->
        << <<"searchText", place>>,
           <<"type", "locations">>,
           <<"origins", "address">>,
           <<"limit", "1">>,
           <<"sr", sr>>,
           <<"geometryFormat", "geojson">> >>]

GeoAdminReverseRequest(point) ==
    [url |-> endpoint[GeoAdmin] \o "MapServer/identify",
     query |->
        << <<"geometry", F64ToString(point.x) \o "," \o F64ToString(point.y)>>,
           <<"geometryType", "esriGeometryPoint">>,
           <<"layers", "all:ch.bfs.gebaeude_wohnungs_register">>,
           <<"mapExtent", "0,0,100,100">>,
           <<"imageDisplay", "100,100,100">>,
           <<"tolerance", "50">>,
           <<"geometryFormat", "geojson">>,
           <<"sr", sr>>,
           <<"lang", "en">> >>]

OpenstreetmapForwardFullRequest(params) ==
    [url |-> endpoint[Openstreetmap] \o "search",
     query |->
        << <<"q", params.query>>,
           <<"format", "geojson">>,
           <<"addressdetails", IF params.addressdetails THEN "1" ELSE "0">> >>
        \o (IF params.viewbox # None
            THEN << <<"viewbox", InputBoundsString(params.viewbox[1])>> >>
            ELSE <<>>)]

OpenstreetmapForwardRequest(place) ==
    [url |-> endpoint[Openstreetmap] \o "search",
     query |-> << <<"q", place>>, <<"format", "geojson">> >>]

OpenstreetmapReverseRequest(point) ==
    [url |-> endpoint[Openstreetmap] \o "reverse",
     query |->
        << <<"lon", F64ToString(point.x)>>,
           <<"lat", F64ToString(point.y)>>,
           <<"format", "geojson">> >>]

\* A query text that puts the longitude first.
OpencageReverseQLonLat(point) == F64ToString(point.x) \o ", " \o F64ToString(point.y)

\* Opencage: q, key and the two fixed flags, then the optional parameters.
OpencageReverseQ(point) == F64ToString(point.y) \o ", " \o F64ToString(point.x)

OpencageReverseFullRequest(point) ==
    [url |-> endpoint[Opencage],
     query |->
        << <<"q", OpencageReverseQ(point)>>,
           <<"key", api_key>>,
           <<"no_annotations", "0">>,
           <<"no_record", "1">> >>
        \o AsQuery(parameters)]

OpencageForwardFullRequest(place, bounds) ==
    [url |-> endpoint[Opencage],
     query |->
        << <<"q", place>>,
           <<"key", api_key>>,
           <<"no_annotations", "0">>,
           <<"no_record", "1">> >>
        \o (IF bounds # None
            THEN << <<"bounds", InputBoundsString(bounds[1])>> >>
            ELSE <<>>)
        \o AsQuery(parameters)]

OpencageReverseRequest(point) ==
    [url |-> endpoint[Opencage],
     query |->
        << <<"q", OpencageReverseQ(point)>>,
           <<"key", api_key>>,
           <<"no_annotations", "1">>,
           <<"no_record", "1">> >>
        \o AsQuery(parameters)]

\* A forward that asks for annotations.
OpencageForwardRequestAnnotated(place) ==
    [url |-> endpoint[Opencage],
     query |->
        << <<"q", place>>,
           <<"key", api_key>>,
           <<"no_annotations", "0">>,
           <<"no_record", "1">> >>
        \o AsQuery(parameters)]

OpencageForwardRequest(place) ==
    [url |-> endpoint[Opencage],
     query |->
        << <<"q", place>>,
           <<"key", api_key>>,
           <<"no_annotations", "1">>,
           <<"no_record", "1">> >>
        \o AsQuery(parameters)]

\* The request the handler of operation o builds from the caller's arguments.
BuildRequest(o, a) ==
    IF o = Op(Opencage, "forward") THEN OpencageForwardRequest(a.place)
    ELSE IF o = Op(Opencage, "reverse") THEN OpencageReverseRequest(a.point)
    ELSE IF o = Op(Opencage, "forward_full") THEN OpencageForwardFullRequest(a.place, a.bounds)
    ELSE IF o = Op(Opencage, "reverse_full") THEN OpencageReverseFullRequest(a.point)
    ELSE IF o = Op(Openstreetmap, "forward") THEN OpenstreetmapForwardRequest(a.place)
    ELSE IF o = Op(Openstreetmap, "reverse") THEN OpenstreetmapReverseRequest(a.point)
    ELSE IF o = Op(Openstreetmap, "forward_full") THEN OpenstreetmapForwardFullRequest(a.params)
    ELSE IF o = Op(GeoAdmin, "forward") THEN GeoAdminForwardRequest(a.place)
    ELSE IF o = Op(GeoAdmin, "reverse") THEN GeoAdminReverseRequest(a.point)
    ELSE GeoAdminForwardFullRequest(a.params)

\* The wgs84_to_lv03 invocations building that request makes.
Lv03Invocations(o, a) ==
    IF o = Op(GeoAdmin, "forward_full") /\ a.params.bbox # None /\ sr \in {"4326", "3857"}
    THEN {[input |-> c, output |-> Wgs84ToLv03(c), sr |-> sr] :
             c \in {a.params.bbox[1].minimum_lonlat, a.params.bbox[1].maximum_lonlat}}
    ELSE {}

\* A handler that sends its request a second time.
IssueGetTwice(t) ==
    /\ request' = [request EXCEPT ![t] = BuildRequest(op[t], args[t])]
    /\ sent' = [sent EXCEPT ![t] = @ + 2]
    /\ lv03Log' = lv03Log \cup Lv03Invocations(op[t], args[t])
    /\ UNCHANGED args

\* A forward_full that transforms the caller's box where it is.
IssueGetInPlace(t) ==
    /\ request' = [request EXCEPT ![t] = BuildRequest(op[t], args[t])]
    /\ sent' = [sent EXCEPT ![t] = @ + 1]
    /\ lv03Log' = lv03Log \cup Lv03Invocations(op[t], args[t])
    /\ args' = [args EXCEPT ![t] =
                   IF op[t] = Op(GeoAdmin, "forward_full") /\ args[t].params.bbox # None
                   THEN [params |-> [args[t].params EXCEPT
                                        !.bbox = Some(GeoAdminBbox(args[t].params.bbox[1]))]]
                   ELSE args[t]]

\* The handler builds its query from its arguments and the adapter's fields
\* and issues one GET; the arguments are only read.
IssueGet(t) ==
    /\ request' = [request EXCEPT ![t] = BuildRequest(op[t], args[t])]
    /\ sent' = [sent EXCEPT ![t] = @ + 1]
    /\ lv03Log' = lv03Log \cup Lv03Invocations(op[t], args[t])
    /\ UNCHANGED args

\* A send that records the rate-limit header of an error response as well.
SendStoresOnError(t, status, h) ==
    /\ pc[t] = "request"
    /\ h \in HeadersFor(op[t], status)
    /\ IssueGet(t)
    /\ received' =
           IF h # None /\ HeaderInt(h[1]) # None
           THEN received \cup {HeaderInt(h[1])[1]}
           ELSE received
    /\ IF status = "2xx"
       THEN /\ pc' = [pc EXCEPT ![t] =
                         IF op[t].adapter = Opencage THEN "headers" ELSE "json"]
            /\ resp' = [resp EXCEPT ![t] = [status |-> status, hdr |-> h]]
            /\ UNCHANGED <<got, stored, ret, remaining>>
       ELSE /\ Finish(t, status, Err("Request"))
            /\ remaining' =
                   IF h # None /\ HeaderInt(h[1]) # None THEN HeaderInt(h[1]) ELSE remaining
    /\ UNCHANGED <<sr, lockHolder, op, body, config, building>>

\* client.get(..).query(..).send()?.error_for_status()?
Send(t, status, h) ==
    /\ pc[t] = "request"
    /\ h \in HeadersFor(op[t], status)
    /\ IssueGet(t)
    /\ received' =
           IF h # None /\ HeaderInt(h[1]) # None
           THEN received \cup {HeaderInt(h[1])[1]}
           ELSE received
    /\ IF status = "2xx"
       THEN /\ pc' = [pc EXCEPT ![t] =
                         IF op[t].adapter = Opencage THEN "headers" ELSE "json"]
            /\ resp' = [resp EXCEPT ![t] = [status |-> status, hdr |-> h]]
            /\ UNCHANGED <<got, stored, ret>>
       ELSE Finish(t, status, Err("Request"))
    /\ UNCHANGED <<sr, remaining, lockHolder, op, body, config, building>>

\* A header block that clears the quota when the header is missing.
TryLockClearsOnAbsent(t) ==
    /\ pc[t] = "headers"
    /\ IF resp[t].hdr = None
       THEN /\ pc' = [pc EXCEPT ![t] = "json"]
            /\ remaining' = None
            /\ UNCHANGED <<lockHolder, got>>
       ELSE IF lockHolder = 0
       THEN /\ lockHolder' = t
            /\ got' = [got EXCEPT ![t] = "locked"]
            /\ pc' = [pc EXCEPT ![t] = "locked"]
            /\ UNCHANGED remaining
       ELSE /\ got' = [got EXCEPT ![t] = "wouldblock"]
            /\ pc' = [pc EXCEPT ![t] = "json"]
            /\ UNCHANGED <<lockHolder, remaining>>
    /\ UNCHANGED <<sr, op, resp, stored, body, ret, received, config, building, issued>>

\* A header block that takes the quota Mutex with lock() and so waits for it.
TryLockBlocking(t) ==
    /\ pc[t] = "headers"
    /\ IF resp[t].hdr = None
       THEN /\ pc' = [pc EXCEPT ![t] = "json"]
            /\ UNCHANGED <<lockHolder, got>>
       ELSE /\ lockHolder = 0
            /\ lockHolder' = t
            /\ got' = [got EXCEPT ![t] = "locked"]
            /\ pc' = [pc EXCEPT ![t] = "locked"]
    /\ UNCHANGED <<sr, remaining, op, resp, stored, body, ret, received, config, building, issued>>

\* if let Some(headers) = resp.headers().get(XRL) { let mut lock = try_lock(); ..
TryLock(t) ==
    /\ pc[t] = "headers"
    /\ IF resp[t].hdr = None
       THEN /\ pc' = [pc EXCEPT ![t] = "json"]
            /\ UNCHANGED <<lockHolder, got>>
       ELSE IF lockHolder = 0
       THEN /\ lockHolder' = t
            /\ got' = [got EXCEPT ![t] = "locked"]
            /\ pc' = [pc EXCEPT ![t] = "locked"]
       ELSE /\ got' = [got EXCEPT ![t] = "wouldblock"]
            /\ pc' = [pc EXCEPT ![t] = "json"]
            /\ UNCHANGED lockHolder
    /\ UNCHANGED <<sr, remaining, op, resp, stored, body, ret, received, config, building, issued>>

\* A store that parses the header and then forgets to write it.
StoreQuotaForgotten(old, h) == old

\* A store that only fills an empty quota.
StoreQuotaKeepFirst(old, h) == IF old = None THEN Some(h) ELSE old

\* A store that counts the present call off the header's value.
StoreQuotaMinusOne(old, h) == Some(h - 1)

\* **mutex = Some(h)
StoreQuota(old, h) == Some(h)

\* A header block whose guard outlives it on the success path.
UpdateQuotaHoldsGuard(t) ==
    /\ pc[t] = "locked"
    /\ lockHolder = t
    /\ LET h == resp[t].hdr[1] IN
       IF ~ToStrOk(h)
       THEN /\ Finish(t, "2xx", Err("HeaderConversion"))
            /\ lockHolder' = 0
            /\ UNCHANGED remaining
       ELSE IF ParseI32(h) = None
       THEN /\ Finish(t, "2xx", Err("ParseInt"))
            /\ lockHolder' = 0
            /\ UNCHANGED remaining
       ELSE /\ remaining' = StoreQuota(remaining, ParseI32(h)[1])
            /\ stored' = [stored EXCEPT ![t] =
                             IF remaining' = remaining THEN "same" ELSE "new"]
            /\ pc' = [pc EXCEPT ![t] = "json"]
            /\ UNCHANGED <<lockHolder, resp, got, ret>>
    /\ UNCHANGED <<sr, op, body, received, config, building, issued>>

\* let h = headers.to_str()?; let h: i32 = h.parse()?; **mutex = Some(h)
\* The guard is dropped at the end of the block and by either `?`.
UpdateQuota(t) ==
    /\ pc[t] = "locked"
    /\ lockHolder = t
    /\ lockHolder' = 0
    /\ LET h == resp[t].hdr[1] IN
       IF ~ToStrOk(h)
       THEN /\ Finish(t, "2xx", Err("HeaderConversion"))
            /\ UNCHANGED remaining
       ELSE IF ParseI32(h) = None
       THEN /\ Finish(t, "2xx", Err("ParseInt"))
            /\ UNCHANGED remaining
       ELSE /\ remaining' = StoreQuota(remaining, ParseI32(h)[1])
            /\ stored' = [stored EXCEPT ![t] =
                             IF remaining' = remaining THEN "same" ELSE "new"]
            /\ pc' = [pc EXCEPT ![t] = "json"]
            /\ UNCHANGED <<resp, got, ret>>
    /\ UNCHANGED <<sr, op, body, received, config, building, issued>>

\* let res = resp.json()?; and what the handler returns from it.
DecodeBody(t, b) ==
    /\ pc[t] = "json"
    /\ body' = [body EXCEPT ![t] = b]
    /\ Finish(t, "2xx", Decode(op[t], sr, b))
    /\ UNCHANGED <<sr, remaining, lockHolder, op, received, config, building, issued>>

\* remaining_calls: self.remaining.lock() blocks until the Mutex is free ...
Lock(t) ==
    /\ pc[t] = "lock"
    /\ lockHolder = 0
    /\ lockHolder' = t
    /\ pc' = [pc EXCEPT ![t] = "read"]
    /\ UNCHANGED <<sr, remaining, op, resp, got, stored, body, ret, received, config, building, issued>>

\* An accessor that moves the value out of the Mutex (Option::take).
ReadQuotaTake(t) ==
    /\ pc[t] = "read"
    /\ lockHolder = t
    /\ lockHolder' = 0
    /\ Finish(t, "none", Ok(remaining))
    /\ remaining' = None
    /\ UNCHANGED <<sr, op, body, received, config, building, issued>>

\* An accessor that leaks its guard (mem::forget): the Mutex stays locked.
ReadQuotaLeaksGuard(t) ==
    /\ pc[t] = "read"
    /\ lockHolder = t
    /\ Finish(t, "none", Ok(remaining))
    /\ UNCHANGED <<sr, remaining, lockHolder, op, body, received, config, building, issued>>

\* ... .unwrap() and the copy out of the guard, which is then dropped.
ReadQuota(t) ==
    /\ pc[t] = "read"
    /\ lockHolder = t
    /\ lockHolder' = 0
    /\ Finish(t, "none", Ok(remaining))
    /\ UNCHANGED <<sr, remaining, op, body, received, config, building, issued>>

\* The caller takes the result; the thread is free for its next call.
Return(t) ==
    /\ pc[t] = "done"
    /\ pc' = [pc EXCEPT ![t] = "idle"]
    /\ op' = [op EXCEPT ![t] = NoOp]
    /\ resp' = [resp EXCEPT ![t] = NoResp]
    /\ body' = [body EXCEPT ![t] = Unread]
    /\ ret' = [ret EXCEPT ![t] = NoRet]
    /\ args' = [args EXCEPT ![t] = NoArgs]
    /\ request' = [request EXCEPT ![t] = NoRequest]
    /\ sent' = [sent EXCEPT ![t] = 0]
    /\ UNCHANGED <<sr, remaining, lockHolder, got, stored, received, config, building, lv03Log>>

\* ------------------------------------------- the caller's parameter builder
\* What callers pass to with_origins and with_limit (a u8).
OriginsValues == {"address", "parcel"}
LimitValues == {50, 5}

\* GeoAdminParams::new(searchtext) / OpenstreetmapParams::new(query)
ParamsNew(k) ==
    /\ builder.kind # k
    /\ builder' = [kind |-> k,
                   params |-> IF k = GeoAdmin THEN GeoAdminParamsNew(PlaceWabern)
                              ELSE OpenstreetmapParamsNew(PlaceWabern)]
    /\ built' = None
    /\ lastSet' = NoSetters
    /\ UNCHANGED <<sr, remaining, lockHolder, pc, op, resp, got, stored, body, ret, received>>
    /\ UNCHANGED <<config, issued>>

\* builder.with_<field>(v) on a builder of kind k: `params` is what the setter
\* leaves in the builder.
ApplySetter(k, field, v, params) ==
    /\ builder.kind = k
    /\ builder' = [builder EXCEPT !.params = params]
    /\ lastSet' = [lastSet EXCEPT ![field] = Some(v)]
    /\ UNCHANGED built
    /\ UNCHANGED <<sr, remaining, lockHolder, pc, op, resp, got, stored, body, ret, received>>
    /\ UNCHANGED <<config, issued>>

WithOrigins(origins) ==
    ApplySetter(GeoAdmin, "origins", origins, GeoAdminWithOrigins(builder.params, origins))

WithBbox(bbox) ==
    ApplySetter(GeoAdmin, "bbox", bbox, GeoAdminWithBbox(builder.params, bbox))

WithLimit(limit) ==
    ApplySetter(GeoAdmin, "limit", limit, GeoAdminWithLimit(builder.params, limit))

WithAddressdetails(addressdetails) ==
    ApplySetter(Openstreetmap, "addressdetails", addressdetails,
                OpenstreetmapWithAddressdetails(builder.params, addressdetails))

WithViewbox(viewbox) ==
    ApplySetter(Openstreetmap, "viewbox", viewbox,
                OpenstreetmapWithViewbox(builder.params, viewbox))

\* builder.build(): a new value from `&self`.
Build ==
    /\ builder.kind # "none"
    /\ built' = Some(IF builder.kind = GeoAdmin THEN GeoAdminBuild(builder.params)
                     ELSE OpenstreetmapBuild(builder.params))
    /\ UNCHANGED <<builder, lastSet>>
    /\ UNCHANGED <<sr, remaining, lockHolder, pc, op, resp, got, stored, body, ret, received>>
    /\ UNCHANGED <<config, issued>>

Statuses == {"transport", "non2xx", "2xx"}
AllHeaders == {None} \cup {Some(h) : h \in HeaderValues}

\* Bodies offered to concurrent callers of the shared Opencage instance.
SharedBodies == {Undecodable, WellFormed(<<>>), WellFormed(<<OcResultA>>)}

\* ---------------------------------------------------------- specifications
\* Spec: NumThreads threads share one Opencage instance.
Next ==
    \E t \in Threads :
        \/ \E o \in OpencageCalls \cup {RemainingCalls} : Begin(t, o, DefaultArgs(o))
        \/ \E st \in Statuses, h \in AllHeaders : Send(t, st, h)
        \/ TryLock(t)
        \/ UpdateQuota(t)
        \/ \E b \in SharedBodies : DecodeBody(t, b)
        \/ Lock(t)
        \/ ReadQuota(t)
        \/ Return(t)

Spec == Init /\ [][Next]_vars

\* SpecFair: the same threads under a scheduler. A thread that holds the
\* Mutex is in a block with nothing to wait for and runs on (weak fairness);
\* a thread blocked in lock() gets the Mutex if it is free again and again
\* (strong fairness). Requests and callers are under no obligation.
SpecFair ==
    /\ Init
    /\ [][Next]_vars
    /\ \A t \in Threads :
           /\ WF_vars(UpdateQuota(t))
           /\ WF_vars(ReadQuota(t))
           /\ SF_vars(Lock(t))

\* SpecSeq: a single caller uses the three adapters, one call after another.
NextSeq ==
    \/ \E s \in SrValues : WithSr(s)
    \/ \E o \in HttpCalls \cup {RemainingCalls} : Begin(1, o, DefaultArgs(o))
    \/ \E st \in Statuses, h \in AllHeaders : Send(1, st, h)
    \/ TryLock(1)
    \/ UpdateQuota(1)
    \/ \E b \in Bodies(op[1], MaxResults) : DecodeBody(1, b)
    \/ Lock(1)
    \/ ReadQuota(1)
    \/ Return(1)

SpecSeq == Init /\ [][NextSeq]_vars

\* SpecQuery: a single caller configures the adapters and passes every kind
\* of argument; the responses are kept few.
QueryHeaders == {None, Some(HdrSeven)}
QueryBodies == {Undecodable, WellFormed(<<>>)}

NextQuery ==
    \/ \E s \in SrValues : WithSr(s)
    \/ \E e \in Endpoints : WithEndpoint(e)
    \/ \E p \in ParameterValues : SetParameters(p)
    \/ \E o \in HttpCalls : \E a \in QueryArgs(o) : Begin(1, o, a)
    \/ \E st \in Statuses, h \in QueryHeaders : Send(1, st, h)
    \/ TryLock(1)
    \/ UpdateQuota(1)
    \/ \E b \in QueryBodies : DecodeBody(1, b)
    \/ Return(1)

SpecQuery == Init /\ [][NextQuery]_vars

\* A caller assembling the parameters of forward_full.
NextBuilder ==
    \/ \E k \in {GeoAdmin, Openstreetmap} : ParamsNew(k)
    \/ \E origins \in OriginsValues : WithOrigins(origins)
    \/ \E bbox \in Boxes : WithBbox(bbox)
    \/ \E limit \in LimitValues : WithLimit(limit)
    \/ \E addressdetails \in BOOLEAN : WithAddressdetails(addressdetails)
    \/ \E viewbox \in Boxes : WithViewbox(viewbox)
    \/ Build

SpecBuilder == Init /\ [][NextBuilder]_vars

\* ----------------------------------------------------------------- claims
\* A thread whose call of an HTTP operation has returned.
Returned(t) == pc[t] = "done" /\ op[t] \in HttpCalls

\* The step in which thread t's call returns.
Returns(t) == pc[t] # "done" /\ pc'[t] = "done"

\* A returned call whose 2xx body was decoded and holds no result.
DecodedEmpty(t) ==
    /\ Returned(t)
    /\ resp[t].status = "2xx"
    /\ body[t].decodable
    /\ body[t].results = <<>>

\* C1 (as claimed): for every adapter, reverse on a 2xx, well-formed response
\* with zero results / features returns Ok(None), never an error or a panic.
C1_ReverseEmptyIsNone ==
    \A t \in Threads :
        (DecodedEmpty(t) /\ op[t].method = "reverse") => ret[t] = Ok(None)

\* Longitude / easting and latitude / northing of a wire result, by provider.
WireLon(a, item) ==
    IF a = Opencage THEN item.geometry.lng
    ELSE IF a = Openstreetmap THEN item.geometry.coordinates[1]
    ELSE IF sr \in {"2056", "21781"} THEN item.properties.y ELSE item.properties.x

WireLat(a, item) ==
    IF a = Opencage THEN item.geometry.lat
    ELSE IF a = Openstreetmap THEN item.geometry.coordinates[2]
    ELSE IF sr \in {"2056", "21781"} THEN item.properties.x ELSE item.properties.y

\* C2: for every adapter, forward returns one Point per provider result, in
\* the provider's order, the i-th Point having x = longitude (easting) and
\* y = latitude (northing) of the i-th result.
C2_ForwardCanonicalOrder ==
    \A t \in Threads :
        (Returned(t) /\ op[t].method = "forward" /\ ret[t].kind = "Ok") =>
            /\ Len(ret[t].val) = Len(body[t].results)
            /\ \A i \in 1..Len(body[t].results) :
                   /\ ret[t].val[i].x = WireLon(op[t].adapter, body[t].results[i])
                   /\ ret[t].val[i].y = WireLat(op[t].adapter, body[t].results[i])

\* C2 witness: Opencage forward returned two different points in wire order.
C2_Witness ==
    \E t \in Threads :
        /\ Returned(t)
        /\ op[t] = Op(Opencage, "forward")
        /\ body[t].results = <<OcResultB, OcResultA>>
        /\ ret[t] = Ok(<<Point(213, 4140), Point(1158, 4817)>>)

\* C3: GeoAdmin.forward returns (wire y, wire x) when sr is "2056" or "21781"
\* and (wire x, wire y) for every other sr; the fixture y = 2600968.75,
\* x = 1197427.0 under sr "2056" gives exactly [Point(2600968.75, 1197427.0)].
C3_GeoAdminForwardSwap ==
    \A t \in Threads :
        (Returned(t) /\ op[t] = Op(GeoAdmin, "forward") /\ ret[t].kind = "Ok") =>
            LET fs == body[t].results
                ps == ret[t].val
            IN  /\ Len(ps) = Len(fs)
                /\ sr \in {"2056", "21781"} =>
                       \A i \in 1..Len(fs) :
                           ps[i] = [x |-> fs[i].properties.y, y |-> fs[i].properties.x]
                /\ sr \notin {"2056", "21781"} =>
                       \A i \in 1..Len(fs) :
                           ps[i] = [x |-> fs[i].properties.x, y |-> fs[i].properties.y]
                /\ (sr = "2056" /\ fs = <<GaFeatureLV95>>) =>
                       ps = <<[x |-> 260096875, y |-> 119742700]>>

\* C3 witness: the fixture answered a forward call under sr "2056".
C3_Witness ==
    \E t \in Threads :
        /\ Returned(t)
        /\ op[t] = Op(GeoAdmin, "forward")
        /\ sr = "2056"
        /\ body[t].results = <<GaFeatureLV95>>
        /\ ret[t] = Ok(<<[x |-> 260096875, y |-> 119742700]>>)

\* C4: for every adapter, forward on a 2xx, well-formed response with zero
\* results / features returns Ok(empty list), not an error.
C4_ForwardEmptyIsOk ==
    \A t \in Threads :
        (DecodedEmpty(t) /\ op[t].method = "forward") => ret[t] = Ok(<<>>)

\* C4 witness: an Opencage forward call returned the empty list.
C4_Witness ==
    \E t \in Threads :
        /\ DecodedEmpty(t)
        /\ op[t] = Op(Opencage, "forward")
        /\ ret[t] = Ok(<<>>)

\* C5 (as claimed): the quota is None before any response has been received,
\* and Some(integer) after any single Opencage call that returned Ok.
C5_SomeAfterAnyOk ==
    /\ received = {} => remaining = None
    /\ \A t \in Threads :
           (Returned(t) /\ op[t] \in OpencageCalls /\ ret[t].kind = "Ok") =>
               remaining # None

\* C5 (amended): the quota is None until a response with an integer
\* rate-limit header has been received, and it is Some(integer) once a call
\* returns Ok whose response carried the header and whose try_lock succeeded.
C5_SomeAfterRecordedOk ==
    /\ [](received = {} => remaining = None)
    /\ [][\A t \in Threads :
              (Returns(t) /\ op[t] \in OpencageCalls /\ ret'[t].kind = "Ok"
                  /\ got[t] = "locked") => remaining' # None]_vars

\* C5 witness: an Opencage call has returned Ok and the quota is known.
C5_Witness ==
    \E t \in Threads :
        /\ Returned(t)
        /\ op[t] \in OpencageCalls
        /\ ret[t].kind = "Ok"
        /\ remaining # None

\* The integer headers of the model and the integers they spell.
IntHeaders == {<<HdrSeven, 7>>, <<HdrTwentyFour, 24>>}

\* C6: with a single caller, when an Opencage call whose 2xx response carries
\* an integer header returns Ok the quota equals that integer, and nothing
\* but the next call's header block changes it (the most recent header wins).
C6_QuotaIsLatestHeader ==
    [][/\ \A t \in Threads : \A hv \in IntHeaders :
              (Returns(t) /\ op[t] \in OpencageCalls /\ ret'[t].kind = "Ok"
                  /\ resp[t].hdr = Some(hv[1])) => remaining' = Some(hv[2])
       /\ remaining' # remaining => \E t \in Threads : pc[t] = "locked"]_vars

\* C6 witness: a call returned Ok after a header "24" replaced the quota 7.
C6_Witness ==
    /\ Returned(1)
    /\ op[1] \in OpencageCalls
    /\ ret[1].kind = "Ok"
    /\ received = {7, 24}
    /\ remaining = Some(24)

\* C7: a step of a call whose 2xx response has no rate-limit header never
\* changes the quota or the lock; the header block goes straight on to the
\* body, and the call does not end in a header error.
C7_AbsentHeaderKeepsQuota ==
    [][\A t \in Threads :
           (pc[t] \in {"headers", "json"} /\ op[t] \in OpencageCalls
               /\ resp[t].hdr = None /\ pc'[t] # pc[t]) =>
               /\ remaining' = remaining
               /\ lockHolder' = lockHolder
               /\ pc[t] = "headers" => pc'[t] = "json"
               /\ pc'[t] = "done" => ret'[t].err \notin {"HeaderConversion", "ParseInt"}]_vars

\* C7 witness: a header-less 2xx response is being decoded while the quota
\* holds a value recorded earlier.
C7_Witness ==
    \E t \in Threads :
        /\ pc[t] = "json"
        /\ resp[t] = [status |-> "2xx", hdr |-> None]
        /\ remaining # None

\* C8: in every interleaving the quota, and every value remaining_calls()
\* returned, is None or the integer of a rate-limit header received before.
C8_QuotaNeverTorn ==
    /\ remaining = None \/ remaining[1] \in received
    /\ Len(remaining) <= 1
    /\ \A t \in Threads :
           (pc[t] = "done" /\ op[t] = RemainingCalls) =>
               /\ ret[t].kind = "Ok"
               /\ ret[t].val = None \/ ret[t].val[1] \in received

\* C8 witness: remaining_calls() returned the quota while another thread was
\* in a call and two different integers had been received.
C8_Witness ==
    \E t, u \in Threads :
        /\ pc[t] = "done"
        /\ op[t] = RemainingCalls
        /\ ret[t].val # None
        /\ received = {7, 24}
        /\ op[u] \in OpencageCalls
        /\ pc[u] \in {"headers", "locked", "json"}

\* C9: a header block that finds the quota lock held is never blocked and
\* skips the update: quota, lock and result stay as they are, the call goes
\* on to the body, and it does not end in a header error.
C9_HeldLockSkipsUpdate ==
    /\ [](\A t \in Threads : pc[t] = "headers" => ENABLED TryLock(t))
    /\ [][\A t \in Threads :
              /\ (pc[t] = "headers" /\ resp[t].hdr # None /\ lockHolder # 0
                      /\ pc'[t] # pc[t]) =>
                     /\ pc'[t] = "json"
                     /\ got'[t] = "wouldblock"
                     /\ remaining' = remaining
                     /\ lockHolder' = lockHolder
                     /\ ret'[t] = ret[t]
              /\ (pc[t] = "json" /\ got[t] = "wouldblock" /\ pc'[t] # pc[t]) =>
                     /\ remaining' = remaining
                     /\ pc'[t] = "done"
                     /\ ret'[t].err \notin {"HeaderConversion", "ParseInt"}]_vars

\* C9 witness: a call skipped the update and is decoding its body while
\* another thread holds the quota lock.
C9_Witness ==
    \E t \in Threads :
        /\ pc[t] = "json"
        /\ got[t] = "wouldblock"
        /\ lockHolder \notin {0, t}

\* C10 (as claimed): an Opencage call that does not return Ok has not
\* replaced the quota by a new value.
C10_ErrorLeavesQuota ==
    [][\A t \in Threads :
           (Returns(t) /\ op[t] \in OpencageCalls /\ ret'[t].kind # "Ok") =>
               stored[t] # "new"]_vars

\* C11 (as claimed): in every interleaving, an Opencage call whose 2xx
\* response carries a rate-limit header that is not valid text returns
\* Err(HeaderConversion), and one whose header is text but no i32 returns
\* Err(ParseInt).
C11_BadHeaderIsTypedError ==
    [][\A t \in Threads :
           (Returns(t) /\ op[t] \in OpencageCalls /\ resp[t].status = "2xx"
               /\ resp[t].hdr # None) =>
               /\ resp[t].hdr = Some(HdrNotUtf8) => ret'[t] = Err("HeaderConversion")
               /\ resp[t].hdr = Some(HdrNotInt) => ret'[t] = Err("ParseInt")]_vars

\* C11 (amended): the same, for the calls whose try_lock acquired the quota
\* lock; the typed error is returned by the header block itself, before the
\* body is read, and leaves the quota as it was.
C11_BadHeaderIsTypedErrorWhenLocked ==
    [][\A t \in Threads :
           (pc[t] = "locked" /\ pc'[t] # pc[t] /\ op[t] \in OpencageCalls
               /\ resp[t].status = "2xx" /\ got[t] = "locked"
               /\ resp[t].hdr \in {Some(HdrNotUtf8), Some(HdrNotInt)}) =>
               /\ pc'[t] = "done"
               /\ body'[t] = Unread
               /\ remaining' = remaining
               /\ resp[t].hdr = Some(HdrNotUtf8) => ret'[t] = Err("HeaderConversion")
               /\ resp[t].hdr = Some(HdrNotInt) => ret'[t] = Err("ParseInt")]_vars

\* C11 witness: one call has returned Err(HeaderConversion) and another
\* Err(ParseInt).
C11_Witness ==
    \E t, u \in Threads :
        /\ pc[t] = "done" /\ op[t] \in OpencageCalls /\ ret[t] = Err("HeaderConversion")
        /\ pc[u] = "done" /\ op[u] \in OpencageCalls /\ ret[u] = Err("ParseInt")

\* C12: no step of any interleaving takes the quota from Some(n) back to
\* None; it can only be replaced by another Some value.
C12_QuotaNeverBackToNone ==
    [][remaining # None => remaining' # None]_vars

\* C12 witness: remaining_calls() has returned Some(24) and the quota has
\* since been replaced by Some(7).
C12_Witness ==
    \E t \in Threads :
        /\ pc[t] = "done"
        /\ op[t] = RemainingCalls
        /\ ret[t] = Ok(Some(24))
        /\ remaining = Some(7)

QueryValues(t, key) ==
    {request[t].query[i][2] :
        i \in {j \in 1..Len(request[t].query) : request[t].query[j][1] = key}}

\* C14: every forward, reverse, forward_full and reverse_full call of every
\* adapter has issued no GET before its send and exactly one from then on,
\* whether it goes on, fails or succeeds; remaining_calls issues none.
C14_ExactlyOneGet ==
    \A t \in Threads :
        /\ pc[t] \in {"idle", "request", "lock", "read"} => sent[t] = 0
        /\ pc[t] \in {"headers", "locked", "json"} => sent[t] = 1
        /\ pc[t] = "done" => sent[t] = IF op[t] \in HttpCalls THEN 1 ELSE 0

\* C14 witness: a call that failed in transport has returned after one GET.
C14_Witness ==
    \E t \in Threads :
        /\ Returned(t)
        /\ resp[t].status = "transport"
        /\ ret[t] = Err("Request")
        /\ sent[t] = 1
        /\ request[t] # NoRequest

\* C15: no step of a forward, reverse, forward_full or reverse_full call
\* changes endpoint, reference system, API key or optional parameters of an
\* adapter, nor the argument object of its caller; GeoAdmin.forward_full
\* leaves the caller's bounding box as it was.
C15_CallsLeaveAdapterAndArguments ==
    [][\A t \in Threads :
           /\ (pc[t] # "done" /\ pc'[t] # pc[t]) =>
                  /\ endpoint' = endpoint
                  /\ sr' = sr
                  /\ api_key' = api_key
                  /\ parameters' = parameters
           /\ (pc[t] \in {"request", "headers", "locked", "json"} /\ pc'[t] # pc[t]) =>
                  args'[t] = args[t]]_vars

\* C15 witness: GeoAdmin.forward_full has returned under sr "4326"; the query
\* carried the transformed box, the caller's box is the one that was passed.
C15_Witness ==
    \E t \in Threads :
        /\ Returned(t)
        /\ op[t] = Op(GeoAdmin, "forward_full")
        /\ sr = "4326"
        /\ args[t].params.bbox = Some(InputBoundsNew(PointBernSW, PointBernNE))
        /\ QueryValues(t, "bbox") = {"600865.79,196544.58,601627.21,197656.43"}

\* The bbox value of the two corners, each passed through wgs84_to_lv03.
TransformedBoxString(bb) ==
    InputBoundsString(InputBoundsNew(Wgs84ToLv03(bb.minimum_lonlat),
                                     Wgs84ToLv03(bb.maximum_lonlat)))

\* A GeoAdmin.forward_full call that has issued its request with a box.
SentWithBox(t) ==
    /\ op[t] = Op(GeoAdmin, "forward_full")
    /\ sent[t] = 1
    /\ args[t].params.bbox # None

\* C16 (as claimed): when the adapter is configured for "2056" or "21781" and
\* the caller supplies a WGS84 box, the `bbox` parameter is the box of the two
\* transformed corners.
C16_ProjectedSrTransformsBox ==
    \A t \in Threads :
        (SentWithBox(t) /\ sr \in {"2056", "21781"}) =>
            QueryValues(t, "bbox") = {TransformedBoxString(args[t].params.bbox[1])}

\* C16 (amended): the two corners are transformed, each on its own, when the
\* adapter is configured for "4326" or "3857"; under "2056" and "21781" the
\* box is serialized as the caller supplied it.
C16_GeographicSrTransformsBox ==
    \A t \in Threads :
        SentWithBox(t) =>
            LET bb == args[t].params.bbox[1] IN
            /\ sr \in {"4326", "3857"} =>
                   /\ QueryValues(t, "bbox") = {TransformedBoxString(bb)}
                   /\ bb = InputBoundsNew(PointBernSW, PointBernNE) =>
                          QueryValues(t, "bbox") =
                              {"600865.79,196544.58,601627.21,197656.43"}
                   /\ bb = InputBoundsNew(PointBernNE, PointBernSW) =>
                          QueryValues(t, "bbox") =
                              {"601627.21,197656.43,600865.79,196544.58"}
            /\ sr \in {"2056", "21781"} =>
                   QueryValues(t, "bbox") = {InputBoundsString(bb)}

\* C16 witness: under sr "3857" a box whose corners are the wrong way round
\* went out with both corners transformed.
C16_Witness ==
    \E t \in Threads :
        /\ SentWithBox(t)
        /\ sr = "3857"
        /\ args[t].params.bbox = Some(InputBoundsNew(PointBernNE, PointBernSW))
        /\ QueryValues(t, "bbox") = {"601627.21,197656.43,600865.79,196544.58"}

BoxText(bb) ==
    IF bb = [minimum_lonlat |-> PointBernSW, maximum_lonlat |-> PointBernNE]
    THEN "7.45,46.92,7.46,46.93"
    ELSE IF bb = [minimum_lonlat |-> PointBernNE, maximum_lonlat |-> PointBernSW]
    THEN "7.46,46.93,7.45,46.92"
    ELSE "-0.14,51.51,-0.13,51.52"

CornerPoints == {PointBernSW, PointBernNE, PointLondonSW, PointLondonNE}

\* C18: InputBounds::new(a, b) stores a as minimum_lonlat and b as
\* maximum_lonlat for every pair of points, ordered or not, and the String
\* conversion every handler sends is "a.x,a.y,b.x,b.y".
C18_InputBoundsAsGiven ==
    /\ \A a, b \in CornerPoints :
           /\ InputBoundsNew(a, b).minimum_lonlat = a
           /\ InputBoundsNew(a, b).maximum_lonlat = b
    /\ \A t \in Threads :
           /\ (op[t] = Op(Opencage, "forward_full") /\ sent[t] = 1
                   /\ args[t].bounds # None) =>
                  QueryValues(t, "bounds") = {BoxText(args[t].bounds[1])}
           /\ (op[t] = Op(Openstreetmap, "forward_full") /\ sent[t] = 1
                   /\ args[t].params.viewbox # None) =>
                  QueryValues(t, "viewbox") = {BoxText(args[t].params.viewbox[1])}
           /\ (SentWithBox(t) /\ sr \in {"2056", "21781"}) =>
                  QueryValues(t, "bbox") = {BoxText(args[t].params.bbox[1])}

\* C18 witness: Opencage.forward_full sent a box whose minimum corner lies
\* north-east of its maximum corner, in the order given.
C18_Witness ==
    \E t \in Threads :
        /\ op[t] = Op(Opencage, "forward_full")
        /\ sent[t] = 1
        /\ args[t].bounds =
               Some([minimum_lonlat |-> PointBernNE, maximum_lonlat |-> PointBernSW])
        /\ QueryValues(t, "bounds") = {"7.46,46.93,7.45,46.92"}

\* C19 (as claimed): the reference system of the GeoAdmin adapter is always
\* one of "2056", "21781", "4326", "3857".
C19_SrIsSupported ==
    sr \in {"2056", "21781", "4326", "3857"}

\* C20: GeoAdminParams::new has limit 50, no box and the fixed origin set;
\* forward_full sends the limit of its parameters: 50 unless with_limit
\* overrode it; forward sends limit=1 and origins=address under every
\* configuration.
C20_GeoAdminLimits ==
    /\ GeoAdminParamsNew(PlaceWabern) =
           [searchtext |-> PlaceWabern,
            origins |-> "zipcode,gg25,district,kantone,gazetteer,address,parcel",
            bbox |-> None,
            limit |-> Some(50)]
    /\ \A t \in Threads :
           /\ (op[t] = Op(GeoAdmin, "forward_full") /\ sent[t] = 1) =>
                  /\ QueryValues(t, "limit") = {ToString(args[t].params.limit[1])}
                  /\ args[t].params = GeoAdminBuild(GeoAdminParamsNew(PlaceWabern)) =>
                         /\ QueryValues(t, "limit") = {"50"}
                         /\ QueryValues(t, "bbox") = {}
                         /\ QueryValues(t, "origins") =
                                {"zipcode,gg25,district,kantone,gazetteer,address,parcel"}
                  /\ args[t].params =
                         GeoAdminBuild(GeoAdminWithLimit(GeoAdminParamsNew(PlaceWabern), 5)) =>
                         QueryValues(t, "limit") = {"5"}
           /\ (op[t] = Op(GeoAdmin, "forward") /\ sent[t] = 1) =>
                  /\ QueryValues(t, "limit") = {"1"}
                  /\ QueryValues(t, "origins") = {"address"}

\* C20 witness: forward_full with untouched parameters has sent limit=50 from
\* an adapter whose reference system and endpoint were both changed.
C20_Witness ==
    \E t \in Threads :
        /\ op[t] = Op(GeoAdmin, "forward_full")
        /\ sent[t] = 1
        /\ args[t].params = GeoAdminBuild(GeoAdminParamsNew(PlaceWabern))
        /\ QueryValues(t, "limit") = {"50"}
        /\ sr = "21781"
        /\ endpoint[GeoAdmin] # DefaultEndpoints[GeoAdmin]

\* The address text of each identify result of the model.
AddressText(r) ==
    IF r = GaResultA THEN "Seftigenstrasse 264, 3084 Wabern" ELSE "Bundesplatz 3, 3005 Bern"

\* C21: GeoAdmin.reverse on a response with one or more results returns
\* Some("{strname_deinr}, {dplz4} {dplzname}") of the first result, whatever
\* results follow it.
C21_GeoAdminReverseFormatsFirst ==
    \A t \in Threads :
        (Returned(t) /\ op[t] = Op(GeoAdmin, "reverse") /\ body[t].decodable
            /\ Len(body[t].results) >= 1) =>
            ret[t] = Ok(Some(AddressText(body[t].results[1])))

\* C21 witness: two different results came back and the first was formatted.
C21_Witness ==
    \E t \in Threads :
        /\ Returned(t)
        /\ op[t] = Op(GeoAdmin, "reverse")
        /\ body[t].results = <<GaResultB, GaResultA>>
        /\ ret[t] = Ok(Some("Bundesplatz 3, 3005 Bern"))

\* The decimal text of each coordinate callers pass to reverse.
PointText(point) ==
    IF point = PointBernSW THEN [x |-> "7.45", y |-> "46.92"]
    ELSE [x |-> "2.13", y |-> "41.4"]

\* C22: reverse and reverse_full take the point's x as longitude and y as
\* latitude: Opencage sends q = "{y}, {x}", Openstreetmap sends lon = x and
\* lat = y, GeoAdmin sends geometry = "{x},{y}".
C22_ReverseCoordinateOrder ==
    \A t \in Threads :
        (sent[t] = 1 /\ op[t].method \in {"reverse", "reverse_full"}) =>
            LET txt == PointText(args[t].point) IN
            /\ op[t].adapter = Opencage =>
                   QueryValues(t, "q") = {txt.y \o ", " \o txt.x}
            /\ op[t].adapter = Openstreetmap =>
                   /\ QueryValues(t, "lon") = {txt.x}
                   /\ QueryValues(t, "lat") = {txt.y}
            /\ op[t].adapter = GeoAdmin =>
                   QueryValues(t, "geometry") = {txt.x \o "," \o txt.y}

\* C22 witness: Opencage.reverse_full of the point (2.13, 41.4) sent the
\* latitude first.
C22_Witness ==
    \E t \in Threads :
        /\ sent[t] = 1
        /\ op[t] = Op(Opencage, "reverse_full")
        /\ args[t].point = PointBarcelona
        /\ QueryValues(t, "q") = {"41.4, 2.13"}

\* C23: every Opencage request carries no_record = 1 exactly once; forward
\* and reverse carry no_annotations = 1, forward_full and reverse_full carry
\* no_annotations = 0, whatever the optional parameters are set to.
C23_OpencageFixedFlags ==
    \A t \in Threads :
        (sent[t] = 1 /\ op[t].adapter = Opencage) =>
            LET count(key) == Cardinality({j \in 1..Len(request[t].query) :
                                              request[t].query[j][1] = key})
            IN
            /\ count("no_record") = 1
            /\ count("no_annotations") = 1
            /\ QueryValues(t, "no_record") = {"1"}
            /\ op[t].method \in {"forward", "reverse"} =>
                   QueryValues(t, "no_annotations") = {"1"}
            /\ op[t].method \in {"forward_full", "reverse_full"} =>
                   QueryValues(t, "no_annotations") = {"0"}

\* C23 witness: with language, country code and limit all set, forward went
\* out with the three optional parameters and both flags at 1.
C23_Witness ==
    \E t \in Threads :
        /\ sent[t] = 1
        /\ op[t] = Op(Opencage, "forward")
        /\ parameters.limit = Some("1")
        /\ QueryValues(t, "language") = {"fr"}
        /\ QueryValues(t, "countrycode") = {"ch"}
        /\ QueryValues(t, "limit") = {"1"}
        /\ QueryValues(t, "no_annotations") = {"1"}
        /\ QueryValues(t, "no_record") = {"1"}

\* C24: GeoAdmin.forward_full sends the box of the two transformed corners
\* exactly when sr is "4326" or "3857"; under every other sr, "2056" and
\* "21781" included, the box goes out as the caller wrote it; without a box no
\* `bbox` parameter is sent.
C24_BboxTransformedIffGeographic ==
    \A t \in Threads :
        (sent[t] = 1 /\ op[t] = Op(GeoAdmin, "forward_full")) =>
            LET bbox == args[t].params.bbox IN
            /\ bbox = None => QueryValues(t, "bbox") = {}
            /\ bbox # None =>
                   /\ TransformedBoxString(bbox[1]) # BoxText(bbox[1])
                   /\ QueryValues(t, "bbox") =
                          {IF sr \in {"4326", "3857"}
                           THEN TransformedBoxString(bbox[1])
                           ELSE BoxText(bbox[1])}

\* C24 witness: under an sr outside the four named ones the London box went
\* out unchanged, and a transformation had been made under "3857" before.
C24_Witness ==
    \E t \in Threads :
        /\ SentWithBox(t)
        /\ sr = "25832"
        /\ QueryValues(t, "bbox") = {"-0.14,51.51,-0.13,51.52"}
        /\ \E e \in lv03Log : e.sr = "3857"

\* C25: under "4326" and "3857" the `bbox` parameter is the transformed
\* minimum corner followed by the transformed maximum corner, in the order
\* the caller gave them, also when the transformed minimum lies beyond the
\* transformed maximum.
C25_NoResortAfterTransform ==
    \A t \in Threads :
        (SentWithBox(t) /\ sr \in {"4326", "3857"}) =>
            LET bb == args[t].params.bbox[1]
                lo == Wgs84ToLv03(bb.minimum_lonlat)
                hi == Wgs84ToLv03(bb.maximum_lonlat)
            IN
            QueryValues(t, "bbox") =
                {F64ToString(lo.x) \o "," \o F64ToString(lo.y) \o "," \o
                 F64ToString(hi.x) \o "," \o F64ToString(hi.y)}

\* C25 witness: under "4326" the transformed minimum corner exceeds the
\* transformed maximum corner in both coordinates and was sent first.
C25_Witness ==
    \E t \in Threads :
        /\ SentWithBox(t)
        /\ sr = "4326"
        /\ Wgs84ToLv03(args[t].params.bbox[1].minimum_lonlat).x >
               Wgs84ToLv03(args[t].params.bbox[1].maximum_lonlat).x
        /\ Wgs84ToLv03(args[t].params.bbox[1].minimum_lonlat).y >
               Wgs84ToLv03(args[t].params.bbox[1].maximum_lonlat).y
        /\ QueryValues(t, "bbox") = {"601627.21,197656.43,600865.79,196544.58"}

\* The published formula evaluated in double precision for each corner point
\* callers pass, rounded to hundredths of a metre: lambda = (x * 3600 -
\* 26782.5) / 10000, phi = (y * 3600 - 169028.66) / 10000, the two cubic
\* polynomials with bases 2600072.37 and 1200147.07, less 2000000 and 1000000.
Lv03Reference(p) ==
    IF p = PointBernSW THEN Point(60086581, 19654458)
    ELSE IF p = PointBernNE THEN Point(60162722, 19765643)
    ELSE IF p = PointLondonSW THEN Point(7296226, 73306276)
    ELSE Point(7376264, 73410640)

\* C26: wgs84_to_lv03 takes x as longitude and y as latitude and returns the
\* value of the two cubic polynomials in lambda and phi less 2000000 and
\* 1000000: every invocation's output lies within five centimetres (the error
\* of the fixed-point arithmetic) of the double-precision value.
C26_Lv03Formula ==
    /\ \A c \in CornerPoints :
           /\ Abs(Wgs84ToLv03(c).x - Lv03Reference(c).x) <= 5
           /\ Abs(Wgs84ToLv03(c).y - Lv03Reference(c).y) <= 5
    /\ \A e \in lv03Log :
           /\ e.input \in CornerPoints
           /\ Abs(e.output.x - Lv03Reference(e.input).x) <= 5
           /\ Abs(e.output.y - Lv03Reference(e.input).y) <= 5

\* C26 witness: all four corner points have been transformed; the London
\* corner (-0.13, 51.52) came out at (73762.62, 734106.39).
C26_Witness ==
    /\ {e.input : e \in lv03Log} = CornerPoints
    /\ \E e \in lv03Log :
           e.input = PointLondonNE /\ e.output = Wgs84ToLv03(PointLondonNE)
                /\ F64ToString(e.output.x) = "73762.62"

\* C27: no operation returns GeocodingError::Forward or ::Reverse: every
\* error returned is Request, HeaderConversion or ParseInt, and the last two
\* come from Opencage operations only.
C27_ErrorVariants ==
    \A t \in Threads :
        (pc[t] = "done" /\ ret[t].kind = "Err") =>
            /\ ret[t].err \in {"Request", "HeaderConversion", "ParseInt"}
            /\ ret[t].err \in {"HeaderConversion", "ParseInt"} => op[t].adapter = Opencage

\* C27 witness: an Openstreetmap reverse whose 2xx body did not decode
\* returned the Request error.
C27_Witness ==
    \E t \in Threads :
        /\ Returned(t)
        /\ op[t] = Op(Openstreetmap, "reverse")
        /\ resp[t].status = "2xx"
        /\ ~body[t].decodable
        /\ ret[t] = Err("Request")

\* The value field f of a builder of kind k holds when no setter has touched it.
FieldDefault(k, f) ==
    IF f = "origins" THEN "zipcode,gg25,district,kantone,gazetteer,address,parcel"
    ELSE IF f = "limit" THEN Some(50)
    ELSE IF f = "addressdetails" THEN FALSE
    ELSE None

\* The value field f holds after with_<f>(v).
FieldAfter(f, v) == IF f \in {"origins", "addressdetails"} THEN v ELSE Some(v)

BuilderFields(k) ==
    IF k = GeoAdmin THEN {"origins", "bbox", "limit"} ELSE {"addressdetails", "viewbox"}

\* C28: the two parameter builders are last-write-wins records. After any
\* sequence of with_* calls each field holds the value of the last setter
\* applied to it, or its default when none was; a with_* call changes no field
\* but its own; build() returns a field-by-field copy and leaves the builder
\* as it was.
C28_BuilderLastWriteWins ==
    /\ [](builder.kind # "none" =>
             /\ \A f \in BuilderFields(builder.kind) :
                    builder.params[f] =
                        IF lastSet[f] = None THEN FieldDefault(builder.kind, f)
                        ELSE FieldAfter(f, lastSet[f][1])
             /\ builder.kind = GeoAdmin => builder.params.searchtext = PlaceWabern
             /\ builder.kind = Openstreetmap => builder.params.query = PlaceWabern)
    /\ [][(builder.kind # "none" /\ builder'.kind = builder.kind) =>
              /\ \A f \in BuilderFields(builder.kind) :
                     lastSet'[f] = lastSet[f] => builder'.params[f] = builder.params[f]
              /\ built' # built => (builder' = builder /\ built' = Some(builder.params))]_vars

\* C28 witness: every GeoAdmin setter has been called, build() returned the
\* fields as they stood, and a later with_limit changed the builder and not
\* the built value.
C28_Witness ==
    /\ builder.kind = GeoAdmin
    /\ lastSet["origins"] = Some("parcel")
    /\ lastSet["bbox"] = Some(InputBoundsNew(PointLondonSW, PointLondonNE))
    /\ lastSet["limit"] = Some(5)
    /\ built # None
    /\ built[1].limit = Some(50)
    /\ built[1].bbox = builder.params.bbox
    /\ builder.params.limit = Some(5)

\* C29: the quota mutex is never held while the call's HTTP request is in
\* flight or while its body is decoded. An HTTP call acquires it only in the
\* header block of an accepted (2xx) response and has released it when it
\* leaves that block, for the body decoding or with a header error.
C29_LockOnlyInHeaderBlock ==
    /\ [](\A t \in Threads :
              /\ lockHolder = t => pc[t] \in {"locked", "read"}
              /\ pc[t] \in {"request", "headers", "json"} => lockHolder # t)
    /\ [][\A t \in Threads :
              /\ (lockHolder # t /\ lockHolder' = t /\ op[t] \in HttpCalls) =>
                     /\ pc[t] = "headers"
                     /\ resp[t].status = "2xx"
                     /\ lockHolder = 0
              /\ (pc[t] = "locked" /\ pc'[t] # "locked") =>
                     /\ lockHolder = t
                     /\ lockHolder' = 0
                     /\ pc'[t] \in {"json", "done"}]_vars

\* C29 witness: one call has stored the quota and stands before the body
\* decoding, another has returned a header parse error, and the mutex is free.
C29_Witness ==
    \E t, u \in Threads :
        /\ pc[t] = "json"
        /\ got[t] = "locked"
        /\ stored[t] = "new"
        /\ pc[u] = "done"
        /\ ret[u] = Err("ParseInt")
        /\ lockHolder = 0

====
